---- MODULE Spec2Model ----
(***************************************************************************)
(* vn-stock-copilot: the daily follow-up job (worker.py) and the analysis  *)
(* pipeline (agents/graph.py, agents/nodes.py) over the persistent store   *)
(* (database/crud.py); and, each on its own inputs, the strategy           *)
(* synthesizer and the Analyze parser (agents/nodes.py), the indicator     *)
(* engine (services/vnstock_service.py) and the message splitter           *)
(* (services/telegram_service.py); repeated follow-up runs and two         *)
(* pipeline invocations running at once.                                   *)
(*                                                                         *)
(* Collaborators (market-data provider, oracle, store, notification        *)
(* channel) are modelled by their outcomes: a value returned or an         *)
(* exception raised.  Free text is modelled by tokens.  Optional values    *)
(* (Python None) are sequences of length 0 or 1.                           *)
(***************************************************************************)
EXTENDS Integers, Sequences, FiniteSets, TLC

VARIABLES
    theses,         \* table investment_theses: sequence of rows, in insertion order
    snapshots,      \* table daily_snapshots: set of rows, unique per (symbol, date)
    clock,          \* datetime.utcnow() of the next store write
    today,          \* date.today()
    market,         \* what the market-data provider answers for each ticker
    watchlist_tbl,  \* table watchlist: the active entries, in the order the query returns them
    job,            \* daily_followup_job: position, fetched watchlist, loop index, all_reports
    sent,           \* messages handed to send_message_sync, in order
    flog,           \* history: the collaborator outcomes of each processed watchlist entry
    run,            \* run_analysis: the current invocation (position, AgentState, history)
    last_run,       \* history: summary of the previous completed invocation
    nruns,          \* number of invocations started
    peer,           \* run_analysis: an invocation in progress in another worker
    call,           \* a helper function under study: its name and arguments
    result          \* what that call returned (None before it returns)

vars == <<theses, snapshots, clock, today, market, watchlist_tbl, job, sent, flog,
          run, last_run, nruns, peer, call, result>>

followup_vars == <<snapshots, today, market, watchlist_tbl, job, sent, flog>>
pipeline_vars == <<run, last_run, nruns, peer>>
helper_vars == <<call, result>>

-----------------------------------------------------------------------------
(* Bounds *)

MaxPrice == 3       \* thresholds range over 0..MaxPrice, closes over 0..MaxPrice+1
MaxWatch == 3       \* longest watchlist
MaxRuns == 2        \* pipeline invocations per behaviour

-----------------------------------------------------------------------------
(* Values *)

None == <<>>
Some(x) == <<x>>

\* float("inf") of worker.py: above every finite price of the model
Inf == 1000000

Tickers == {"AAA", "BBB"}

\* str.upper() on the ticker inputs of the model
Upper(s) == CASE s = "aaa" -> "AAA"
              [] s = "bbb" -> "BBB"
              [] OTHER -> s

\* Python truthiness of a number
Truthy(x) == x # 0

\* thesis.get(key) or default : None and 0 both give the default
OrDefault(v, d) == IF v = None \/ v = Some(0) THEN d ELSE v[1]

-----------------------------------------------------------------------------
(* Persistent store: database/crud.py *)

\* The latest row of the table whatever its symbol.
GetLatestThesis_AnySymbol(store, symbol) ==
    LET idxs == 1..Len(store)
    IN  IF idxs = {} THEN None
        ELSE LET i == CHOOSE k \in idxs :
                        \A j \in idxs :
                            \/ store[j].last_updated < store[k].last_updated
                            \/ (store[j].last_updated = store[k].last_updated /\ j <= k)
             IN  Some(store[i])

\* get_latest_thesis: the row of the symbol with the greatest last_updated
\* (order by last_updated desc, limit 1); None when there is none.
GetLatestThesis(store, symbol) ==
    LET idxs == {i \in 1..Len(store) : store[i].symbol = Upper(symbol)}
    IN  IF idxs = {} THEN None
        ELSE LET i == CHOOSE k \in idxs :
                        \A j \in idxs :
                            \/ store[j].last_updated < store[k].last_updated
                            \/ (store[j].last_updated = store[k].last_updated /\ j <= k)
             IN  Some(store[i])

\* insert_snapshot: the row built from the arguments
SnapshotRow(symbol, close_price, volume, change_percent, ai_commentary, action_signal, date) ==
    [symbol |-> Upper(symbol), date |-> date, close_price |-> close_price,
     volume |-> volume, change_percent |-> change_percent,
     ai_commentary |-> ai_commentary, action_signal |-> action_signal]

\* The snapshot write as a plain insert.
UpsertSnapshot_Insert(tbl, row) == tbl \cup {row}

\* upsert(data, on_conflict="symbol,date")
UpsertSnapshot(tbl, row) ==
    {r \in tbl : ~(r.symbol = row.symbol /\ r.date = row.date)} \cup {row}

-----------------------------------------------------------------------------
(* Follow-up decision engine: worker.py _process_symbol *)

\* vnstock_service.get_current_price: an error dict or a quote
GetCurrentPrice(symbol) == market[symbol]

Verdict(signal, emoji, note) == [signal |-> signal, emoji |-> emoji, note |-> note]

\* The decision tree with its guards dropped: a missing thesis is evaluated with the
\* defaults and the zone test alone decides.
Decide_NoGuards(thesis, close_price) ==
    LET stop_loss == IF thesis = None THEN 0 ELSE OrDefault(thesis[1].stop_loss_price, 0)
        entry_min == IF thesis = None THEN 0 ELSE OrDefault(thesis[1].entry_zone_min, 0)
        entry_max == IF thesis = None THEN Inf ELSE OrDefault(thesis[1].entry_zone_max, Inf)
        target == IF thesis = None THEN Inf ELSE OrDefault(thesis[1].target_price, Inf)
    IN  IF close_price <= stop_loss /\ Truthy(stop_loss) THEN Verdict("SELL", "red", "stop_loss")
        ELSE IF entry_min <= close_price /\ close_price <= entry_max
             THEN Verdict("BUY_MORE", "green", "entry")
        ELSE IF close_price >= target THEN Verdict("SELL", "yellow", "target")
        ELSE Verdict("HOLD", "white", "hold")

\* The decision tree with the target rule tested before the entry zone.
Decide_TargetFirst(thesis, close_price) ==
    IF thesis = None THEN Verdict("HOLD", "white", "default")
    ELSE LET stop_loss == OrDefault(thesis[1].stop_loss_price, 0)
             entry_min == OrDefault(thesis[1].entry_zone_min, 0)
             entry_max == OrDefault(thesis[1].entry_zone_max, Inf)
             target == OrDefault(thesis[1].target_price, Inf)
         IN  IF Truthy(stop_loss) /\ close_price <= stop_loss
             THEN Verdict("SELL", "red", "stop_loss")
             ELSE IF Truthy(target) /\ close_price >= target
             THEN Verdict("SELL", "yellow", "target")
             ELSE IF Truthy(entry_min) /\ Truthy(entry_max)
                     /\ entry_min <= close_price /\ close_price <= entry_max
             THEN Verdict("BUY_MORE", "green", "entry")
             ELSE Verdict("HOLD", "white", "hold")

\* worker.py 92-118: signal, emoji and note from the stored thesis and the close
Decide(thesis, close_price) ==
    IF thesis = None THEN Verdict("HOLD", "white", "default")
    ELSE LET stop_loss == OrDefault(thesis[1].stop_loss_price, 0)
             entry_min == OrDefault(thesis[1].entry_zone_min, 0)
             entry_max == OrDefault(thesis[1].entry_zone_max, Inf)
             target == OrDefault(thesis[1].target_price, Inf)
         IN  IF Truthy(stop_loss) /\ close_price <= stop_loss
             THEN Verdict("SELL", "red", "stop_loss")
             ELSE IF Truthy(entry_min) /\ Truthy(entry_max)
                     /\ entry_min <= close_price /\ close_price <= entry_max
             THEN Verdict("BUY_MORE", "green", "entry")
             ELSE IF Truthy(target) /\ close_price >= target
             THEN Verdict("SELL", "yellow", "target")
             ELSE Verdict("HOLD", "white", "hold")

\* A report section.  kind: "normal" (lines 141-150), "price_error" (line 83),
\* "exception" (line 66, written by daily_followup_job).
Section(kind, symbol, v, close_price, change_pct, volume, comment) ==
    [kind |-> kind, symbol |-> symbol, emoji |-> v.emoji, close |-> close_price,
     change_pct |-> change_pct, volume |-> volume, signal |-> v.signal,
     note |-> v.note, comment |-> comment]

NoVerdict == Verdict("NONE", "none", "none")

\* Outcomes of the commentary request: text returned, empty text, exception
AiOutcomes == {"text", "empty", "raise"}

\* _get_ai_commentary: response.content.strip()[:300], or the exception
GetAiCommentary(ai) ==
    [raised |-> ai = "raise", text |-> IF ai = "text" THEN "comment" ELSE ""]

\* The commentary request without its try/except: the exception leaves _process_symbol.
TryAiCommentary_Unguarded(ai) ==
    LET r == GetAiCommentary(ai)
    IN  [raised |-> r.raised, ai_comment |-> r.text]

\* worker.py 121-125: ai_comment stays "" when the request raises
TryAiCommentary(ai) ==
    LET r == GetAiCommentary(ai)
    IN  [raised |-> FALSE, ai_comment |-> IF r.raised THEN "" ELSE r.text]

\* worker.py 90: crud.get_latest_thesis(symbol), outside any try block
ReadThesis(store, symbol, read_ok) ==
    [raised |-> ~read_ok, thesis |-> IF read_ok THEN GetLatestThesis(store, symbol) ELSE None]

\* worker.py 128-138 with the except clause missing: a failed write leaves _process_symbol.
TrySaveSnapshot_Unguarded(row, write_ok) ==
    [raised |-> ~write_ok, written |-> IF write_ok THEN Some(row) ELSE None]

\* worker.py 128-138: the snapshot write; a failure is logged and swallowed
TrySaveSnapshot(row, write_ok) ==
    [raised |-> FALSE, written |-> IF write_ok THEN Some(row) ELSE None]

Outcome(raised, report, snapshot_arg, written) ==
    [raised |-> raised, report |-> report, snapshot_arg |-> snapshot_arg, written |-> written]

\* worker.py 77-152.  raised: an exception left the function (no report returned);
\* snapshot_arg: the row passed to crud.insert_snapshot; written: the row the store took.
ProcessSymbol(symbol, store, date, read_ok, ai, write_ok) ==
    LET price_info == GetCurrentPrice(symbol)
    IN  IF price_info.error
        THEN Outcome(FALSE, Section("price_error", symbol, NoVerdict, 0, 0, 0, ""), None, None)
        ELSE
        LET close_price == price_info.close
            volume == price_info.volume
            change_pct == price_info.change_percent
            rd == ReadThesis(store, symbol, read_ok)
        IN  IF rd.raised
            THEN Outcome(TRUE, Section("exception", symbol, NoVerdict, 0, 0, 0, ""), None, None)
            ELSE
            LET v == Decide(rd.thesis, close_price)
                c == TryAiCommentary(ai)
            IN  IF c.raised
                THEN Outcome(TRUE, Section("exception", symbol, NoVerdict, 0, 0, 0, ""), None, None)
                ELSE
                LET row == SnapshotRow(symbol, close_price, volume, change_pct,
                                       IF c.ai_comment # "" THEN c.ai_comment ELSE v.note,
                                       v.signal, date)
                    w == TrySaveSnapshot(row, write_ok)
                IN  IF w.raised
                    THEN Outcome(TRUE, Section("exception", symbol, NoVerdict, 0, 0, 0, ""),
                                 Some(row), None)
                    ELSE Outcome(FALSE,
                                 Section("normal", symbol, v, close_price, change_pct, volume,
                                         c.ai_comment),
                                 Some(row), w.written)

-----------------------------------------------------------------------------
(* daily_followup_job: worker.py 38-74 *)

IdleJob == [pc |-> "idle", watchlist |-> <<>>, idx |-> 0, all_reports |-> <<>>]

\* lines 43-55: fetch the watchlist; on failure send the error message and return;
\* an empty watchlist returns without sending
StartJob ==
    /\ job.pc = "idle"
    /\ \E fetch_ok \in BOOLEAN :
          IF ~fetch_ok
          THEN /\ sent' = Append(sent, [kind |-> "job_error", sections |-> <<>>])
               /\ job' = [job EXCEPT !.pc = "done"]
          ELSE /\ sent' = sent
               /\ job' = IF watchlist_tbl = <<>>
                         THEN [job EXCEPT !.pc = "done"]
                         ELSE [job EXCEPT !.pc = "loop", !.watchlist = watchlist_tbl, !.idx = 1]
    /\ UNCHANGED <<theses, snapshots, clock, today, market, watchlist_tbl, flog>>
    /\ UNCHANGED pipeline_vars
    /\ UNCHANGED helper_vars

\* The loop body without its try/except: an exception ends the job.
CatchItem_Propagates(r, symbol) ==
    [abort |-> r.raised, report |-> r.report]

\* lines 61-66: the report of _process_symbol, or the error line when it raised
CatchItem(r, symbol) ==
    [abort |-> FALSE,
     report |-> IF r.raised
                THEN Section("exception", symbol, NoVerdict, 0, 0, 0, "")
                ELSE r.report]

\* lines 57-66: one iteration of the loop, _process_symbol included
ProcessItem ==
    /\ job.pc = "loop"
    /\ job.idx <= Len(job.watchlist)
    /\ \E read_ok \in BOOLEAN, ai \in AiOutcomes, write_ok \in BOOLEAN :
          LET symbol == job.watchlist[job.idx]
              r == ProcessSymbol(symbol, theses, today, read_ok, ai, write_ok)
              c == CatchItem(r, symbol)
              reached_read == ~GetCurrentPrice(symbol).error
              reached_ai == reached_read /\ read_ok
          IN  /\ job' = IF c.abort
                        THEN [job EXCEPT !.pc = "crashed"]
                        ELSE [job EXCEPT !.all_reports = Append(@, c.report),
                                         !.idx = @ + 1,
                                         !.pc = IF job.idx = Len(job.watchlist)
                                                THEN "send" ELSE "loop"]
              /\ snapshots' = IF r.written = None THEN snapshots
                              ELSE UpsertSnapshot(snapshots, r.written[1])
              /\ flog' = Append(flog,
                     [symbol |-> symbol,
                      price_info |-> GetCurrentPrice(symbol),
                      read |-> IF ~reached_read THEN "skipped"
                               ELSE IF read_ok THEN "ok" ELSE "raise",
                      thesis |-> IF reached_ai THEN GetLatestThesis(theses, symbol) ELSE None,
                      ai |-> IF reached_ai THEN ai ELSE "skipped",
                      write |-> IF ~reached_ai THEN "skipped"
                                ELSE IF write_ok THEN "ok" ELSE "raise",
                      snapshot_arg |-> r.snapshot_arg])
    /\ UNCHANGED <<theses, clock, today, market, watchlist_tbl, sent>>
    /\ UNCHANGED pipeline_vars
    /\ UNCHANGED helper_vars

\* lines 68-74: join the sections under the header and send the report
FinishJob ==
    /\ job.pc = "send"
    /\ sent' = Append(sent, [kind |-> "report", sections |-> job.all_reports])
    /\ job' = [job EXCEPT !.pc = "done"]
    /\ UNCHANGED <<theses, snapshots, clock, today, market, watchlist_tbl, flog>>
    /\ UNCHANGED pipeline_vars
    /\ UNCHANGED helper_vars

-----------------------------------------------------------------------------
(* Environments of the follow-up *)

Quote(close_price, volume, change_percent) ==
    [error |-> FALSE, close |-> close_price, volume |-> volume,
     change_percent |-> change_percent]

PriceError == [error |-> TRUE, close |-> 0, volume |-> 0, change_percent |-> 0]

ThesisRow(symbol, content, target, stop, emin, emax, updated) ==
    [symbol |-> symbol, thesis_content |-> content, intrinsic_value |-> 0,
     target_price |-> target, stop_loss_price |-> stop,
     entry_zone_min |-> emin, entry_zone_max |-> emax,
     sentiment_score |-> "0.5", last_updated |-> updated]

\* a threshold column: null, 0 or a positive price
Thresholds == {None} \cup {Some(x) : x \in 0..MaxPrice}

Closes == 0..(MaxPrice + 1)

IdleRun == [pc |-> "idle"]

\* no helper function is being studied on its own
NoCall == [fn |-> "none"]

InitNoCall ==
    /\ call = NoCall
    /\ result = None

InitPipelineIdle ==
    /\ run = IdleRun
    /\ last_run = None
    /\ nruns = 0
    /\ peer = IdleRun

\* One watched ticker, any stored thesis (or none), any quote (or a fetch error).
InitDecision ==
    /\ \E t \in Thresholds, s \in Thresholds, lo \in Thresholds, hi \in Thresholds,
          has \in BOOLEAN :
          theses = IF has THEN <<ThesisRow("AAA", "ext", t, s, lo, hi, 1)>> ELSE <<>>
    /\ snapshots = {}
    /\ clock = 2
    /\ today = 1
    /\ \E c \in Closes, vc \in {<<0, -2>>, <<1000, 3>>}, err \in BOOLEAN :
          market = [x \in Tickers |-> IF err THEN PriceError ELSE Quote(c, vc[1], vc[2])]
    /\ watchlist_tbl = <<"AAA">>
    /\ job = IdleJob
    /\ sent = <<>>
    /\ flog = <<>>
    /\ InitPipelineIdle
    /\ InitNoCall

NextFollowup == StartJob \/ ProcessItem \/ FinishJob

SpecDecision == InitDecision /\ [][NextFollowup]_vars

\* The thesis of the worked example: stop-loss 90, entry zone [95, 98], target 120
ExampleThesis(symbol, updated) ==
    ThesisRow(symbol, "ext", Some(120), Some(90), Some(95), Some(98), updated)

ExampleQuotes == {PriceError, Quote(90, 1000, -2), Quote(96, 2000, 3)}

Watchlists == UNION {[1..n -> Tickers] : n \in 0..MaxWatch}

\* A watchlist of up to MaxWatch entries; AAA has a stored thesis, BBB has none.
InitFollowup ==
    /\ theses = <<ExampleThesis("AAA", 1)>>
    /\ snapshots = {}
    /\ clock = 2
    /\ today = 1
    /\ market \in [Tickers -> ExampleQuotes]
    /\ watchlist_tbl \in Watchlists
    /\ job = IdleJob
    /\ sent = <<>>
    /\ flog = <<>>
    /\ InitPipelineIdle
    /\ InitNoCall

SpecFollowup == InitFollowup /\ [][NextFollowup]_vars

-----------------------------------------------------------------------------
(* Properties of the follow-up *)

Processed == 1..Len(flog)

IsSet(v) == v # None /\ v # Some(0)

AllThresholdsSet(row) ==
    /\ IsSet(row.stop_loss_price) /\ IsSet(row.entry_zone_min)
    /\ IsSet(row.entry_zone_max) /\ IsSet(row.target_price)

\* the documented order: stop-loss, entry zone, target, hold
FirstMatch(row, c) ==
    IF c <= row.stop_loss_price[1] THEN "SELL"
    ELSE IF row.entry_zone_min[1] <= c /\ c <= row.entry_zone_max[1] THEN "BUY_MORE"
    ELSE IF c >= row.target_price[1] THEN "SELL"
    ELSE "HOLD"

SignalOf(arg) == IF arg = None THEN "NONE" ELSE arg[1].action_signal

\* C1: for a stored thesis with all four thresholds positive and any close, the signal
\* in the report section and in the snapshot is the first matching rule in the order
\* stop-loss (SELL), entry zone (BUY_MORE), target (SELL), else HOLD.
C1_FirstMatchWins ==
    \A i \in Processed :
        LET e == flog[i]
            sec == job.all_reports[i]
        IN  (e.read = "ok" /\ e.thesis # None /\ AllThresholdsSet(e.thesis[1])) =>
                /\ sec.kind = "normal"
                /\ sec.signal = FirstMatch(e.thesis[1], e.price_info.close)
                /\ SignalOf(e.snapshot_arg) = FirstMatch(e.thesis[1], e.price_info.close)

\* C1 witness: a close inside the entry zone and at or above the target gave BUY_MORE
C1_Witness ==
    \E i \in Processed :
        LET e == flog[i]
            c == e.price_info.close
        IN  /\ e.read = "ok" /\ e.thesis # None /\ AllThresholdsSet(e.thesis[1])
            /\ c > e.thesis[1].stop_loss_price[1]
            /\ e.thesis[1].entry_zone_min[1] <= c /\ c <= e.thesis[1].entry_zone_max[1]
            /\ c >= e.thesis[1].target_price[1]
            /\ job.all_reports[i].signal = "BUY_MORE"

\* C2: a threshold that is null or 0 never triggers its rule; BUY_MORE needs both
\* entry_zone_min and entry_zone_max set in the thesis.
C2_AbsentNeverTriggers ==
    \A i \in Processed :
        LET e == flog[i]
            sec == job.all_reports[i]
        IN  (sec.kind = "normal" /\ e.thesis # None) =>
                /\ sec.note = "stop_loss" => IsSet(e.thesis[1].stop_loss_price)
                /\ sec.note = "target" => IsSet(e.thesis[1].target_price)
                /\ sec.signal = "BUY_MORE" =>
                       IsSet(e.thesis[1].entry_zone_min) /\ IsSet(e.thesis[1].entry_zone_max)

\* C3: with no stored thesis and a quote obtained, the signal is HOLD whatever the
\* close, volume and change percent.
C3_NoThesisHolds ==
    \A i \in Processed :
        LET e == flog[i]
            sec == job.all_reports[i]
        IN  (e.read = "ok" /\ e.thesis = None) =>
                /\ sec.kind = "normal"
                /\ sec.signal = "HOLD"
                /\ SignalOf(e.snapshot_arg) = "HOLD"

\* C3 witness: a ticker without thesis was processed at a positive close
C3_Witness ==
    \E i \in Processed :
        /\ flog[i].read = "ok" /\ flog[i].thesis = None
        /\ flog[i].price_info.close > 0
        /\ job.all_reports[i].signal = "HOLD"

SameButCommentary(a, b) ==
    /\ a.symbol = b.symbol /\ a.price_info = b.price_info
    /\ a.read = "ok" /\ b.read = "ok"
    /\ a.thesis = b.thesis /\ a.write = b.write

\* C4: two executions of _process_symbol with the same thesis and quote that differ only
\* in the outcome of the commentary request give the same signal, in the report
\* section and in the snapshot passed to the store.
C4_OracleAdvisoryOnly ==
    \A i \in Processed, j \in Processed :
        SameButCommentary(flog[i], flog[j]) =>
            /\ job.all_reports[i].signal = job.all_reports[j].signal
            /\ job.all_reports[i].signal \in {"SELL", "BUY_MORE", "HOLD"}
            /\ SignalOf(flog[i].snapshot_arg) = SignalOf(flog[j].snapshot_arg)
            /\ SignalOf(flog[i].snapshot_arg) = job.all_reports[i].signal

\* C4 witness: the same ticker processed with a commentary text, with an empty one and
\* with a failed request
C4_Witness ==
    \E i \in Processed, j \in Processed, k \in Processed :
        /\ SameButCommentary(flog[i], flog[j]) /\ SameButCommentary(flog[j], flog[k])
        /\ flog[i].ai = "text" /\ flog[j].ai = "raise" /\ flog[k].ai = "empty"
        /\ job.all_reports[i].signal = "BUY_MORE"

LoopOver == job.pc \in {"send", "done"} /\ job.watchlist # <<>>

Failed(e) ==
    e.price_info.error \/ e.read = "raise" \/ e.ai = "raise" \/ e.write = "raise"

\* C5 as stated: n sections in watchlist order, and every failure on a ticker (quote
\* fetch, oracle, store) shows as an error line in that ticker's section.
C5_FailureBecomesErrorLine ==
    LoopOver =>
        /\ Len(job.all_reports) = Len(job.watchlist)
        /\ \A i \in 1..Len(job.watchlist) :
              /\ job.all_reports[i].symbol = job.watchlist[i]
              /\ Failed(flog[i]) => job.all_reports[i].kind # "normal"

\* C5 amended: every entry is processed exactly once in watchlist order and the report
\* has one section per entry whatever fails; a quote fetch error or an exception
\* leaving _process_symbol (the thesis read) becomes an error line, an oracle or
\* snapshot-write failure is swallowed and leaves the normal section.
C5_OneSectionPerEntry ==
    /\ job.pc # "crashed"
    /\ job.pc = "loop" =>
          /\ job.idx \in 1..Len(job.watchlist)
          /\ Len(flog) = job.idx - 1
    /\ Len(job.all_reports) = Len(flog)
    /\ \A i \in Processed :
          /\ flog[i].symbol = job.watchlist[i]
          /\ job.all_reports[i].symbol = job.watchlist[i]
          /\ job.all_reports[i].kind =
                IF flog[i].price_info.error THEN "price_error"
                ELSE IF flog[i].read = "raise" THEN "exception"
                ELSE "normal"
    /\ LoopOver => Len(job.all_reports) = Len(job.watchlist)
    /\ (job.pc = "done" /\ job.watchlist # <<>>) =>
          sent = <<[kind |-> "report", sections |-> job.all_reports]>>

\* C5 witness: three entries, the second one's quote fetch failed, the first and the
\* third have their normal sections in the report that was sent
C5_Witness ==
    /\ job.pc = "done"
    /\ Len(job.watchlist) = 3
    /\ Len(sent) = 1 /\ Len(sent[1].sections) = 3
    /\ sent[1].sections[1].kind = "normal"
    /\ sent[1].sections[2].kind = "price_error"
    /\ sent[1].sections[3].kind = "normal"
    /\ flog[3].ai = "raise" /\ flog[1].write = "raise"

\* C6: a store failure during a ticker's follow-up, reading the thesis or writing the
\* snapshot, still yields the signal and the ticker's normal report section.
C6_StoreFailureKeepsSection ==
    \A i \in Processed :
        (flog[i].read = "raise" \/ flog[i].write = "raise") =>
            /\ job.all_reports[i].kind = "normal"
            /\ job.all_reports[i].signal \in {"SELL", "BUY_MORE", "HOLD"}

-----------------------------------------------------------------------------
(* Analysis pipeline: agents/graph.py, agents/nodes.py *)

RawTickers == {"aaa", "AAA", "BBB"}

\* graph.add_edge calls of build_graph with the analyst bypassed
Edges_SkipAnalyst ==
    {<<"START", "researcher">>, <<"researcher", "strategist">>, <<"strategist", "END">>}

\* build_graph: START -> researcher -> analyst -> strategist -> END
Edges ==
    {<<"START", "researcher">>, <<"researcher", "analyst">>,
     <<"analyst", "strategist">>, <<"strategist", "END">>}

\* the nodes the compiled graph runs after node n
NextNodes(n) == {m \in {"researcher", "analyst", "strategist", "END"} : <<n, m>> \in Edges}

\* run_analysis: the initial AgentState
InitialState(ticker) ==
    [ticker |-> Upper(ticker), current_price |-> 0, raw_financials |-> "{}",
     raw_news |-> <<>>, raw_ohlc |-> [kind |-> "{}", latest_close |-> 0],
     financial_analysis |-> None, technical_signals |-> None,
     previous_thesis |-> None, current_strategy |-> None,
     daily_delta_note |-> None, final_message |-> ""]

\* A merge that resets the fields a node does not return.
Merge_Replace(state, update) ==
    [k \in DOMAIN state |-> IF k \in DOMAIN update THEN update[k]
                            ELSE InitialState(state.ticker)[k]]

\* the graph merges the partial update a node returns into the state
Merge(state, update) ==
    [k \in DOMAIN state |-> IF k \in DOMAIN update THEN update[k] ELSE state[k]]

(* ---- Research ---- *)

\* get_financial_ratios: the ratios or an error dict
FinancialOutcomes == {"ratios", "error"}

\* get_price_history: an error dict, or a frame with or without a close column
PipelinePrices == {25, 100}

PriceFrames ==
    {[error |-> TRUE, has_close |-> FALSE, latest_close |-> 0],
     [error |-> FALSE, has_close |-> FALSE, latest_close |-> 0]}
    \cup {[error |-> FALSE, has_close |-> TRUE, latest_close |-> p] : p \in PipelinePrices}

\* The indicator engine without its check of the close column.
CalculateTechnicalIndicators_NoCheck(df) ==
    [error |-> FALSE, latest_close |-> df.latest_close]

\* calculate_technical_indicators, as far as the pipeline reads it: an error dict when no
\* close column is found, else a record holding latest_close
CalculateTechnicalIndicators(df) ==
    IF ~df.has_close THEN [error |-> TRUE, latest_close |-> 0]
    ELSE [error |-> FALSE, latest_close |-> df.latest_close]

\* nodes.py 43-85
ResearcherNode(state, store, fin, price_df, read_ok) ==
    LET ticker == state.ticker
        tech == CalculateTechnicalIndicators(price_df)
        raw_ohlc == IF price_df.error THEN [kind |-> "error", latest_close |-> 0]
                    ELSE IF tech.error THEN [kind |-> "tech_error", latest_close |-> 0]
                    ELSE [kind |-> "technical", latest_close |-> tech.latest_close]
        current_price == IF price_df.error THEN 0
                         ELSE IF tech.error THEN 0 ELSE tech.latest_close
        thesis == IF read_ok THEN GetLatestThesis(store, ticker) ELSE None
        previous_thesis == IF thesis # None THEN Some(thesis[1].thesis_content) ELSE None
    IN  [current_price |-> current_price, raw_financials |-> fin, raw_ohlc |-> raw_ohlc,
         raw_news |-> <<"headline">>, previous_thesis |-> previous_thesis]

(* ---- Analyze ---- *)

JNum(n) == [t |-> "num", n |-> n, s |-> ""]
JStr(x) == [t |-> "str", n |-> 0, s |-> x]
JBool(b) == [t |-> "bool", n |-> IF b THEN 1 ELSE 0, s |-> ""]
JNull == [t |-> "null", n |-> 0, s |-> ""]

\* dict.get(key) without its default: None when the key is absent.
Get_NoDefault(d, key, default) == IF key \in DOMAIN d THEN d[key] ELSE JNull

\* dict.get(key, default)
Get(d, key, default) == IF key \in DOMAIN d THEN d[key] ELSE default

EmptyDict == [k \in {} |-> JNull]

\* The text the oracle returns to Analyze: how it is fenced and what the fenced text
\* is (invalid JSON, a JSON array, or a JSON object with the two top-level keys).
AnalystBodies ==
    {[json |-> "invalid", fa |-> EmptyDict, ta |-> EmptyDict],
     [json |-> "array", fa |-> EmptyDict, ta |-> EmptyDict],
     [json |-> "object", fa |-> [roe |-> JNum(18)], ta |-> [trend |-> JStr("UP")]],
     [json |-> "object", fa |-> [roe |-> JNull], ta |-> [trend |-> JStr("UP")]],
     [json |-> "object",
      fa |-> [revenue_growth |-> JNum(20), profit_growth |-> JNum(16), roe |-> JNum(18),
              pe_ratio |-> JNum(12), debt_to_equity |-> JNum(1), is_healthy |-> JBool(TRUE)],
      ta |-> [trend |-> JStr("DOWN"), rsi |-> JNum(30), ma_alignment |-> JStr("MA20 < MA50"),
              support_zone |-> JStr("90"), resistance_zone |-> JStr("120")]]}

AnalystResponses ==
    {[raises |-> TRUE, fence |-> "none", body |-> [json |-> "invalid", fa |-> EmptyDict,
                                                  ta |-> EmptyDict]]}
    \cup {[raises |-> FALSE, fence |-> f, body |-> b] :
              f \in {"json", "plain", "none"}, b \in AnalystBodies}

\* nodes.py 120-123: the text between the fences, or the whole text
FencedContent(resp) == resp.body

\* pydantic field validation of the model classes (models/state.py)
ValidFloat(v) == v.t \in {"num", "bool"}
ValidBool(v) == v.t = "bool" \/ (v.t = "num" /\ v.n \in {0, 1})
ValidStr(v) == v.t = "str"

FloatOf(v) == v.n
BoolOf(v) == v.n = 1

FloatFields == {"revenue_growth", "profit_growth", "roe", "pe_ratio", "debt_to_equity"}
StrFields == {"ma_alignment", "support_zone", "resistance_zone"}

\* The except branch filling in default records instead of null.
AnalystNode_DefaultsOnFailure(state, resp) ==
    [financial_analysis |->
        Some([revenue_growth |-> 0, profit_growth |-> 0, roe |-> 0, pe_ratio |-> 0,
              debt_to_equity |-> 0, is_healthy |-> FALSE]),
     technical_signals |->
        Some([trend |-> "SIDEWAYS", rsi |-> 50, ma_alignment |-> "N/A",
              support_zone |-> "N/A", resistance_zone |-> "N/A"])]

\* The two records built and validated one by one: a record is null only when its own
\* fields fail.
AnalystNode_Separately(state, resp) ==
    LET content == FencedContent(resp)
        fa_data == content.fa
        ta_data == content.ta
        fa == [k \in FloatFields |-> Get(fa_data, k, JNum(0))]
        healthy == Get(fa_data, "is_healthy", JBool(FALSE))
        trend == Get(ta_data, "trend", JStr("SIDEWAYS"))
        rsi == Get(ta_data, "rsi", JNum(50))
        ts == [k \in StrFields |-> Get(ta_data, k, JStr("N/A"))]
        fa_valid == (\A k \in FloatFields : ValidFloat(fa[k])) /\ ValidBool(healthy)
        ta_valid == /\ ValidStr(trend) /\ ValidFloat(rsi)
                    /\ \A k \in StrFields : ValidStr(ts[k])
    IN  IF resp.raises \/ content.json # "object"
        THEN [financial_analysis |-> None, technical_signals |-> None]
        ELSE [financial_analysis |->
                 IF ~fa_valid THEN None
                 ELSE Some([revenue_growth |-> FloatOf(fa["revenue_growth"]),
                            profit_growth |-> FloatOf(fa["profit_growth"]),
                            roe |-> FloatOf(fa["roe"]),
                            pe_ratio |-> FloatOf(fa["pe_ratio"]),
                            debt_to_equity |-> FloatOf(fa["debt_to_equity"]),
                            is_healthy |-> BoolOf(healthy)]),
              technical_signals |->
                 IF ~ta_valid THEN None
                 ELSE Some([trend |-> trend.s, rsi |-> FloatOf(rsi),
                            ma_alignment |-> ts["ma_alignment"].s,
                            support_zone |-> ts["support_zone"].s,
                            resistance_zone |-> ts["resistance_zone"].s])]

\* nodes.py 93-157
AnalystNode(state, resp) ==
    LET failure == [financial_analysis |-> None, technical_signals |-> None]
        content == FencedContent(resp)
    IN  IF resp.raises THEN failure
        ELSE IF content.json # "object" THEN failure
        ELSE
        LET fa_data == content.fa
            ta_data == content.ta
            fa == [k \in FloatFields |-> Get(fa_data, k, JNum(0))]
            healthy == Get(fa_data, "is_healthy", JBool(FALSE))
            trend == Get(ta_data, "trend", JStr("SIDEWAYS"))
            rsi == Get(ta_data, "rsi", JNum(50))
            ts == [k \in StrFields |-> Get(ta_data, k, JStr("N/A"))]
            valid == /\ \A k \in FloatFields : ValidFloat(fa[k])
                     /\ ValidBool(healthy)
                     /\ ValidStr(trend) /\ ValidFloat(rsi)
                     /\ \A k \in StrFields : ValidStr(ts[k])
        IN  IF ~valid THEN failure
            ELSE [financial_analysis |->
                     Some([revenue_growth |-> FloatOf(fa["revenue_growth"]),
                           profit_growth |-> FloatOf(fa["profit_growth"]),
                           roe |-> FloatOf(fa["roe"]),
                           pe_ratio |-> FloatOf(fa["pe_ratio"]),
                           debt_to_equity |-> FloatOf(fa["debt_to_equity"]),
                           is_healthy |-> BoolOf(healthy)]),
                  technical_signals |->
                     Some([trend |-> trend.s, rsi |-> FloatOf(rsi),
                           ma_alignment |-> ts["ma_alignment"].s,
                           support_zone |-> ts["support_zone"].s,
                           resistance_zone |-> ts["resistance_zone"].s])]

(* ---- Strategize ---- *)

\* Truncation instead of rounding.
RoundHalfEven_Truncate(n, d) == n \div d

\* round(x, 0) of n/d: to the nearest integer, ties to the even one
RoundHalfEven(n, d) ==
    LET q == n \div d
        r == n % d
    IN  IF 2 * r < d THEN q
        ELSE IF 2 * r > d THEN q + 1
        ELSE IF q % 2 = 0 THEN q ELSE q + 1

\* The synthesizer with a risk level that ignores is_healthy.
ExtractStrategyFromReport_IgnoresHealth(report, state) ==
    LET ta == state.technical_signals
        current_price == state.current_price
        risk == IF ta # None /\ ta[1].trend = "UP" THEN "LOW"
                ELSE IF ta # None /\ ta[1].trend = "DOWN" THEN "HIGH"
                ELSE "MEDIUM"
    IN  Some([thesis_summary |-> report,
              entry_price_range |-> <<RoundHalfEven(current_price * 92, 100),
                                      RoundHalfEven(current_price * 98, 100)>>,
              target_price |-> RoundHalfEven(current_price * 120, 100),
              stop_loss |-> RoundHalfEven(current_price * 90, 100),
              risk_level |-> risk])

\* The synthesizer with the stop-loss placed at 95% of the price, above the entry low.
ExtractStrategyFromReport_StopAboveEntry(report, state) ==
    LET current_price == state.current_price
    IN  Some([thesis_summary |-> report,
              entry_price_range |-> <<RoundHalfEven(current_price * 92, 100),
                                      RoundHalfEven(current_price * 98, 100)>>,
              target_price |-> RoundHalfEven(current_price * 120, 100),
              stop_loss |-> RoundHalfEven(current_price * 95, 100),
              risk_level |-> "MEDIUM"])

\* The synthesizer taking its target from the report: one of the texts raises it to 130%.
ExtractStrategyFromReport_ReadsReport(report, state) ==
    LET current_price == state.current_price
    IN  Some([thesis_summary |-> report,
              entry_price_range |-> <<RoundHalfEven(current_price * 92, 100),
                                      RoundHalfEven(current_price * 98, 100)>>,
              target_price |-> RoundHalfEven(current_price * (IF report = "r2" THEN 130
                                                              ELSE 120), 100),
              stop_loss |-> RoundHalfEven(current_price * 90, 100),
              risk_level |-> "MEDIUM"])

\* nodes.py 246-283
ExtractStrategyFromReport(report, state) ==
    LET thesis_summary == report
        fa == state.financial_analysis
        ta == state.technical_signals
        current_price == state.current_price
        risk == IF fa # None /\ fa[1].is_healthy /\ ta # None /\ ta[1].trend = "UP"
                THEN "LOW"
                ELSE IF ta # None /\ ta[1].trend = "DOWN" THEN "HIGH"
                ELSE "MEDIUM"
    IN  Some([thesis_summary |-> thesis_summary,
              entry_price_range |-> <<RoundHalfEven(current_price * 92, 100),
                                      RoundHalfEven(current_price * 98, 100)>>,
              target_price |-> RoundHalfEven(current_price * 120, 100),
              stop_loss |-> RoundHalfEven(current_price * 90, 100),
              risk_level |-> risk])

\* crud.upsert_thesis written as a true upsert: the symbol's row is overwritten.
UpsertThesis_OnConflict(store, symbol, thesis_content, target_price, stop_loss_price, entry_zone_min, entry_zone_max, now) ==
    LET row == ThesisRow(Upper(symbol), thesis_content, Some(target_price),
                         Some(stop_loss_price), Some(entry_zone_min),
                         Some(entry_zone_max), now)
    IN  IF \E i \in 1..Len(store) : store[i].symbol = row.symbol
        THEN [i \in 1..Len(store) |-> IF store[i].symbol = row.symbol THEN row ELSE store[i]]
        ELSE Append(store, row)

\* crud.upsert_thesis (crud.py 88-112): inserts a new row, last_updated = utcnow()
UpsertThesis(store, symbol, thesis_content, target_price, stop_loss_price, entry_zone_min, entry_zone_max, now) ==
    Append(store, ThesisRow(Upper(symbol), thesis_content, Some(target_price),
                            Some(stop_loss_price), Some(entry_zone_min),
                            Some(entry_zone_max), now))

\* The thesis write without its own try/except: the failure reaches the outer handler.
TrySaveThesis_Unguarded(store, ticker, final_message, strategy, now, write_ok) ==
    [raised |-> ~write_ok, store |-> store]

\* nodes.py 218-231: the thesis write; a failure is logged and swallowed
TrySaveThesis(store, ticker, final_message, strategy, now, write_ok) ==
    [raised |-> FALSE,
     store |->
        IF ~write_ok THEN store
        ELSE IF strategy # None
        THEN LET rng == strategy[1].entry_price_range
             IN  UpsertThesis(store, ticker, final_message, strategy[1].target_price,
                              strategy[1].stop_loss,
                              IF Len(rng) > 0 THEN rng[1] ELSE 0,
                              IF Len(rng) > 1 THEN rng[2] ELSE 0, now)
        ELSE UpsertThesis(store, ticker, final_message, 0, 0, 0, 0, now)]

\* The texts the oracle returns to Strategize, or its failure
ReportTexts == {"r1", " r1 ", "r2"}

\* str.strip() on the report texts of the model
Strip(t) == IF t = " r1 " THEN "r1" ELSE t

StrategistResponses ==
    {[raises |-> TRUE, text |-> ""]} \cup {[raises |-> FALSE, text |-> t] : t \in ReportTexts}

\* the message of the outer except branch (nodes.py 242)
ErrorMessage(ticker) == IF ticker = "AAA" THEN "error AAA" ELSE "error BBB"

\* The except branch storing its error message as the thesis.
StrategistNode_SavesError(state, store, resp, now, write_ok) ==
    LET ticker == state.ticker
        failure == [update |-> [current_strategy |-> None,
                                final_message |-> ErrorMessage(ticker)],
                    store |-> UpsertThesis(store, ticker, ErrorMessage(ticker), 0, 0, 0, 0, now)]
    IN  IF resp.raises THEN failure
        ELSE
        LET final_message == Strip(resp.text)
            strategy == ExtractStrategyFromReport(final_message, state)
            w == TrySaveThesis(store, ticker, final_message, strategy, now, write_ok)
        IN  [update |-> [current_strategy |-> strategy, final_message |-> final_message],
             store |-> w.store]

\* nodes.py 165-243: the update returned and the store after the node
StrategistNode(state, store, resp, now, write_ok) ==
    LET ticker == state.ticker
        failure == [update |-> [current_strategy |-> None,
                                final_message |-> ErrorMessage(ticker)],
                    store |-> store]
    IN  IF resp.raises THEN failure
        ELSE
        LET final_message == Strip(resp.text)
            strategy == ExtractStrategyFromReport(final_message, state)
            w == TrySaveThesis(store, ticker, final_message, strategy, now, write_ok)
        IN  IF w.raised THEN failure
            ELSE [update |-> [current_strategy |-> strategy, final_message |-> final_message],
                  store |-> w.store]

(* ---- run_analysis ---- *)

\* history kept of a completed invocation
RunSummary(r, store) ==
    [ticker |-> r.state.ticker, final_message |-> r.state.final_message,
     strat_ok |-> ~r.strat_resp.raises, write |-> r.write,
     n_before |-> r.n_before, n_after |-> Len(store)]

NoAnalystResponse == [raises |-> FALSE, fence |-> "none",
                      body |-> [json |-> "none", fa |-> EmptyDict, ta |-> EmptyDict]]
NoStrategistResponse == [raises |-> FALSE, text |-> ""]
NoResearch == [fin |-> "none", price_df |-> [error |-> FALSE, has_close |-> FALSE, latest_close |-> 0]]

\* graph.py 45-68: build the initial state and enter the graph
RunAnalysis ==
    /\ run.pc \in {"idle", "END"}
    /\ nruns < MaxRuns
    /\ \E ticker \in RawTickers, n \in NextNodes("START") :
          run' = [pc |-> n, state |-> InitialState(ticker), trace |-> <<>>, calls |-> <<>>,
                  n_before |-> Len(theses), read |-> "none", research |-> NoResearch,
                  analyst_resp |-> NoAnalystResponse,
                  strat_resp |-> NoStrategistResponse, write |-> "none"]
    /\ last_run' = IF run.pc = "END" THEN Some(RunSummary(run, theses)) ELSE None
    /\ nruns' = nruns + 1
    /\ UNCHANGED <<theses, clock, peer>>
    /\ UNCHANGED followup_vars
    /\ UNCHANGED helper_vars

ResearcherStep ==
    /\ run.pc = "researcher"
    /\ \E fin \in FinancialOutcomes, price_df \in PriceFrames, read_ok \in BOOLEAN,
          n \in NextNodes("researcher") :
          run' = [run EXCEPT !.state = Merge(@, ResearcherNode(@, theses, fin, price_df, read_ok)),
                             !.trace = Append(@, "researcher"),
                             !.read = IF read_ok THEN "ok" ELSE "raise",
                             !.research = [fin |-> fin, price_df |-> price_df],
                             !.pc = n]
    /\ UNCHANGED <<theses, clock, last_run, nruns, peer>>
    /\ UNCHANGED followup_vars
    /\ UNCHANGED helper_vars

AnalystStep ==
    /\ run.pc = "analyst"
    /\ \E resp \in AnalystResponses, n \in NextNodes("analyst") :
          run' = [run EXCEPT !.state = Merge(@, AnalystNode(@, resp)),
                             !.trace = Append(@, "analyst"),
                             !.calls = Append(@, "analyst"),
                             !.analyst_resp = resp,
                             !.pc = n]
    /\ UNCHANGED <<theses, clock, last_run, nruns, peer>>
    /\ UNCHANGED followup_vars
    /\ UNCHANGED helper_vars

StrategistStep ==
    /\ run.pc = "strategist"
    /\ \E resp \in StrategistResponses, write_ok \in BOOLEAN, n \in NextNodes("strategist") :
          LET r == StrategistNode(run.state, theses, resp, clock, write_ok)
          IN  /\ run' = [run EXCEPT !.state = Merge(@, r.update),
                                    !.trace = Append(@, "strategist"),
                                    !.calls = Append(@, "strategist"),
                                    !.strat_resp = resp,
                                    !.write = IF resp.raises THEN "skipped"
                                              ELSE IF write_ok THEN "ok" ELSE "raise",
                                    !.pc = n]
              /\ theses' = r.store
    /\ clock' = clock + 1
    /\ UNCHANGED <<last_run, nruns, peer>>
    /\ UNCHANGED followup_vars
    /\ UNCHANGED helper_vars

NextPipeline == RunAnalysis \/ ResearcherStep \/ AnalystStep \/ StrategistStep

\* The follow-up job is not running; the store is empty or holds one earlier thesis.
InitPipeline ==
    /\ theses \in {<<>>, <<ExampleThesis("AAA", 1)>>}
    /\ snapshots = {}
    /\ clock = 2
    /\ today = 1
    /\ market = [x \in Tickers |-> PriceError]
    /\ watchlist_tbl = <<>>
    /\ job = IdleJob
    /\ sent = <<>>
    /\ flog = <<>>
    /\ InitPipelineIdle
    /\ InitNoCall

SpecPipeline == InitPipeline /\ [][NextPipeline]_vars

-----------------------------------------------------------------------------
(* Properties of the pipeline *)

Stages == <<"researcher", "analyst", "strategist">>

Active == run.pc # "idle"

Returned == run.pc = "END"

StepOf(node) ==
    CASE node = "researcher" -> ENABLED ResearcherStep
      [] node = "analyst" -> ENABLED AnalystStep
      [] node = "strategist" -> ENABLED StrategistStep
      [] OTHER -> FALSE

\* C7: every invocation runs Research, Analyze, Strategize once each in that order, one
\* after the other with no branch or loop-back, and then is at the terminal state with
\* the accumulated state as its result.
C7_LinearStages ==
    Active =>
        /\ Len(run.trace) <= 3
        /\ run.trace = SubSeq(Stages, 1, Len(run.trace))
        /\ run.pc = IF Len(run.trace) = 3 THEN "END" ELSE Stages[Len(run.trace) + 1]
        /\ ~Returned => StepOf(run.pc)
        /\ Returned => /\ run.trace = Stages
                       /\ run.read # "none"
                       /\ run.analyst_resp # NoAnalystResponse
                       /\ run.write # "none"

\* C7 witness: an invocation that returned after its three stages, with a report
C7_Witness ==
    /\ Returned
    /\ run.trace = Stages
    /\ run.state.final_message = "r2"
    /\ run.state.financial_analysis # None

\* the Analyze oracle call failed, or its text is not JSON, or another exception
\* (a JSON value that is no object, a field that fails validation)
AnalyzeFailed(resp) ==
    \/ resp.raises
    \/ resp.body.json \in {"invalid", "array"}
    \/ \E k \in DOMAIN resp.body.fa : resp.body.fa[k] = JNull
    \/ \E k \in DOMAIN resp.body.ta : resp.body.ta[k] = JNull

AnalystCalls == Len(SelectSeq(run.calls, LAMBDA c : c = "analyst"))

\* C8: when the Analyze oracle call fails or its response cannot be parsed, both
\* structured records are null, Analyze called the oracle once (no retry), and the run
\* goes on to Strategize and returns.
C8_ParseFailureNullsBoth ==
    (Active /\ Len(run.trace) >= 2 /\ AnalyzeFailed(run.analyst_resp)) =>
        /\ run.state.financial_analysis = None
        /\ run.state.technical_signals = None
        /\ AnalystCalls = 1
        /\ run.pc \in {"strategist", "END"}
        /\ run.pc = "strategist" => ENABLED StrategistStep
        /\ Returned => run.trace = Stages

\* C8 witness: a run whose Analyze text was not JSON returned with its report
C8_Witness ==
    /\ Returned
    /\ ~run.analyst_resp.raises /\ run.analyst_resp.body.json = "invalid"
    /\ run.state.financial_analysis = None /\ run.state.technical_signals = None
    /\ run.state.final_message = "r1"
    /\ run.state.current_strategy # None

\* C9: the result of a run does not depend on the thesis write: whenever the Strategize
\* oracle call succeeded, final_message is the stripped report and current_strategy the
\* synthesized strategy, whether the write succeeded or raised, and the run returns.
C9_WriteFailureInvisible ==
    (Active /\ Len(run.trace) = 3 /\ ~run.strat_resp.raises) =>
        /\ Returned
        /\ run.write \in {"ok", "raise"}
        /\ run.state.final_message = Strip(run.strat_resp.text)
        /\ run.state.current_strategy # None
        /\ run.state.current_strategy =
              ExtractStrategyFromReport(Strip(run.strat_resp.text), run.state)

\* C9 witness: a run whose thesis write raised returned its report and strategy
C9_Witness ==
    /\ Returned
    /\ run.write = "raise"
    /\ run.state.final_message = "r1"
    /\ run.state.current_strategy # None
    /\ run.state.current_strategy[1].target_price = 120

Consecutive == Returned /\ last_run # None /\ last_run[1].ticker = run.state.ticker

Stored(strat_ok, write) == strat_ok /\ write = "ok"

\* C10 as stated: two consecutive runs for the same ticker each add one thesis record
\* and the second run's previous_thesis is the first run's final_message.
C10_EachRunAddsRecord ==
    Consecutive =>
        /\ last_run[1].n_after = last_run[1].n_before + 1
        /\ Len(theses) = run.n_before + 1
        /\ run.state.previous_thesis = Some(last_run[1].final_message)

\* C10 amended: a run adds one thesis record exactly when its Strategize oracle call and
\* its thesis write succeed; of two consecutive runs for the same ticker that both
\* stored their thesis, the two records are distinct; and when the first stored its
\* thesis and the second run's thesis read succeeded, the second run's previous_thesis
\* is the first run's final_message.
C10_SuccessfulRunsAddRecords ==
    /\ Returned =>
          Len(theses) = run.n_before
                        + (IF Stored(~run.strat_resp.raises, run.write) THEN 1 ELSE 0)
    /\ (Returned /\ Stored(~run.strat_resp.raises, run.write)) =>
          /\ theses[Len(theses)].symbol = run.state.ticker
          /\ theses[Len(theses)].thesis_content = run.state.final_message
    /\ (Consecutive /\ Stored(last_run[1].strat_ok, last_run[1].write)) =>
          /\ last_run[1].n_after = last_run[1].n_before + 1
          /\ run.n_before = last_run[1].n_after
          /\ run.read = "ok" => run.state.previous_thesis = Some(last_run[1].final_message)
          /\ Stored(~run.strat_resp.raises, run.write) =>
                /\ Len(theses) = last_run[1].n_before + 2
                /\ theses[Len(theses) - 1].thesis_content = last_run[1].final_message
                /\ theses[Len(theses) - 1].symbol = run.state.ticker
                /\ theses[Len(theses)].last_updated > theses[Len(theses) - 1].last_updated

\* C10 witness: two consecutive runs for AAA over a store that already held a thesis;
\* both stored theirs, the second read the first one's report
C10_Witness ==
    /\ Consecutive
    /\ run.n_before = 2 /\ Len(theses) = 3
    /\ last_run[1].final_message = "r1"
    /\ run.state.previous_thesis = Some("r1")
    /\ run.state.final_message = "r2"
    /\ theses[2].thesis_content = "r1" /\ theses[3].thesis_content = "r2"

-----------------------------------------------------------------------------
(* Pipeline invocations and the follow-up job over the same store *)

MaxStoreRuns == 1   \* pipeline invocations per behaviour when the job runs as well

StoreQuotes == {Quote(96, 2000, 3)}

\* AAA is watched; the store holds one earlier thesis of AAA.
InitStore ==
    /\ theses = <<ExampleThesis("AAA", 1)>>
    /\ snapshots = {}
    /\ clock = 2
    /\ today = 1
    /\ \E q \in StoreQuotes : market = [x \in Tickers |-> q]
    /\ watchlist_tbl = <<"AAA">>
    /\ job = IdleJob
    /\ sent = <<>>
    /\ flog = <<>>
    /\ InitPipelineIdle
    /\ InitNoCall

\* run_analysis is invoked by the /analyze endpoint (main.py 96), the job by the
\* scheduler of the worker process (worker.py 204-212): their steps interleave freely.
NextStore ==
    \/ (nruns < MaxStoreRuns /\ RunAnalysis)
    \/ ResearcherStep
    \/ AnalystStep
    \/ StrategistStep
    \/ StartJob
    \/ ProcessItem
    \/ FinishJob

SpecStore == InitStore /\ [][NextStore]_vars

IsPrefix(s, t) == Len(s) <= Len(t) /\ \A i \in 1..Len(s) : t[i] = s[i]

\* rows of a ticker in a store
RowsOf(store, symbol) == {i \in 1..Len(store) : store[i].symbol = symbol}

-----------------------------------------------------------------------------
(* Research on unavailable data *)

\* the store as the invocation in progress found it
StoreAtStart == SubSeq(theses, 1, run.n_before)

Researched == Active /\ Len(run.trace) >= 1

\* C12: Research returns whatever its collaborators answer: a price-history error payload
\* or the indicator engine's missing-close error is embedded in raw_ohlc with
\* current_price 0, a ratio error is embedded in raw_financials, and previous_thesis is
\* null when the thesis read raises or finds nothing.
C12_ResearchNeverAborts ==
    /\ (Active /\ run.pc = "researcher") => ENABLED ResearcherStep
    /\ Researched =>
          LET s == run.state
              df == run.research.price_df
          IN  /\ run.trace[1] = "researcher"
              /\ run.pc \in {"analyst", "strategist", "END"}
              /\ df.error => (s.raw_ohlc.kind = "error" /\ s.current_price = 0)
              /\ (~df.error /\ ~df.has_close) =>
                    (s.raw_ohlc.kind = "tech_error" /\ s.current_price = 0)
              /\ (~df.error /\ df.has_close) =>
                    (s.raw_ohlc.kind = "technical" /\ s.current_price = df.latest_close)
              /\ run.research.fin = "error" => s.raw_financials = "error"
              /\ (run.read = "raise" \/ GetLatestThesis(StoreAtStart, s.ticker) = None)
                    => s.previous_thesis = None

\* Research has returned although the frame had no close column, the ratio fetch
\* failed and the thesis read raised
C12_Witness ==
    /\ Researched
    /\ run.pc = "analyst"
    /\ ~run.research.price_df.error
    /\ ~run.research.price_df.has_close
    /\ run.research.fin = "error"
    /\ run.read = "raise"
    /\ run.state.current_price = 0

-----------------------------------------------------------------------------
(* The strategy synthesizer on its own *)

MaxSynthPrice == 60     \* current prices range over 0..MaxSynthPrice, and 100000

SynthPrices == 0..MaxSynthPrice \cup {100000}

SynthTrends == {"UP", "DOWN", "SIDEWAYS", "up"}

\* What analyst_node leaves in the state: both records, or neither (nodes.py 118-157)
SynthAnalyses ==
    {[financial_analysis |-> None, technical_signals |-> None]}
    \cup {[financial_analysis |->
              Some([revenue_growth |-> 20, profit_growth |-> 16, roe |-> 18, pe_ratio |-> 12,
                    debt_to_equity |-> 1, is_healthy |-> h]),
           technical_signals |->
              Some([trend |-> t, rsi |-> 50, ma_alignment |-> "N/A",
                    support_zone |-> "N/A", resistance_zone |-> "N/A"])] :
          h \in BOOLEAN, t \in SynthTrends}

\* strategist_node has the report and is about to extract the strategy (nodes.py 215)
InitSynth ==
    /\ theses = <<>>
    /\ snapshots = {}
    /\ clock = 2
    /\ today = 1
    /\ market = [x \in Tickers |-> PriceError]
    /\ watchlist_tbl = <<>>
    /\ job = IdleJob
    /\ sent = <<>>
    /\ flog = <<>>
    /\ InitPipelineIdle
    /\ \E price \in SynthPrices, a \in SynthAnalyses :
          call = [fn |-> "_extract_strategy_from_report", report |-> "r1", saved |-> FALSE,
                  state |-> Merge(Merge(InitialState("AAA"), [current_price |-> price]), a)]
    /\ result = None

\* nodes.py 215: strategy = _extract_strategy_from_report(final_message, state)
ExtractStrategyStep ==
    /\ call.fn = "_extract_strategy_from_report"
    /\ result = None
    /\ result' = Some(ExtractStrategyFromReport(call.report, call.state))
    /\ UNCHANGED <<theses, clock, call>>
    /\ UNCHANGED followup_vars
    /\ UNCHANGED pipeline_vars

\* nodes.py 217-231: the thesis write that follows
SaveThesisStep ==
    /\ call.fn = "_extract_strategy_from_report"
    /\ result # None
    /\ ~call.saved
    /\ \E write_ok \in BOOLEAN :
          theses' = TrySaveThesis(theses, call.state.ticker, call.report, result[1],
                                  clock, write_ok).store
    /\ clock' = clock + 1
    /\ call' = [call EXCEPT !.saved = TRUE]
    /\ UNCHANGED result
    /\ UNCHANGED followup_vars
    /\ UNCHANGED pipeline_vars

NextSynth == ExtractStrategyStep \/ SaveThesisStep

SpecSynth == InitSynth /\ [][NextSynth]_vars

\* the synthesizer has returned a strategy
Synthesized == call.fn = "_extract_strategy_from_report" /\ result # None /\ result[1] # None

SynthPrice == call.state.current_price

Strategy == result[1][1]

\* r is an integer nearest to k*p/100
Nearest(r, k, p) == 2 * (100 * r - k * p) <= 100 /\ 2 * (k * p - 100 * r) <= 100

\* C13: for every current price p >= 0 the synthesizer returns a strategy whose entry
\* range is [0.92p, 0.98p], target 1.20p and stop-loss 0.90p, each rounded to a nearest
\* integer; for p = 100000 these are [92000, 98000], 120000 and 90000.
C13_PriceLevels ==
    /\ (call.fn = "_extract_strategy_from_report" /\ result # None) => result[1] # None
    /\ Synthesized =>
          /\ Len(Strategy.entry_price_range) = 2
          /\ Nearest(Strategy.entry_price_range[1], 92, SynthPrice)
          /\ Nearest(Strategy.entry_price_range[2], 98, SynthPrice)
          /\ Nearest(Strategy.target_price, 120, SynthPrice)
          /\ Nearest(Strategy.stop_loss, 90, SynthPrice)
          /\ SynthPrice = 100000 =>
                /\ Strategy.entry_price_range = <<92000, 98000>>
                /\ Strategy.target_price = 120000
                /\ Strategy.stop_loss = 90000

\* the worked example: the strategy returned for a current price of 100000
C13_Witness ==
    /\ Synthesized
    /\ SynthPrice = 100000
    /\ Strategy.target_price = 120000

\* the four thresholds of a strategy, and of a stored thesis
LevelsOf(strategy) ==
    [low |-> strategy.entry_price_range[1], high |-> strategy.entry_price_range[2],
     target |-> strategy.target_price, stop |-> strategy.stop_loss]

LevelsOfRow(row) ==
    [low |-> row.entry_zone_min[1], high |-> row.entry_zone_max[1],
     target |-> row.target_price[1], stop |-> row.stop_loss_price[1]]

StrictlyOrdered(l) == l.low <= l.high /\ l.stop < l.low /\ l.low < l.target

WeaklyOrdered(l) == l.low <= l.high /\ l.stop <= l.low /\ l.low <= l.target

C15_RiskLevel ==
    Synthesized =>
       LET fa == call.state.financial_analysis
           ta == call.state.technical_signals
           risk == Strategy.risk_level
           low == fa # None /\ fa[1].is_healthy /\ ta # None /\ ta[1].trend = "UP"
           high == ta # None /\ ta[1].trend = "DOWN"
       IN  /\ risk \in {"LOW", "MEDIUM", "HIGH"}
           /\ risk = "LOW" <=> low
           /\ risk = "HIGH" <=> high
           /\ risk = "MEDIUM" <=> (~low /\ ~high)
           /\ (fa = None \/ ta = None) => risk = "MEDIUM"

\* a healthy analysis with trend UP has been synthesized as LOW risk
C15_Witness ==
    /\ Synthesized
    /\ call.state.financial_analysis # None
    /\ call.state.financial_analysis[1].is_healthy
    /\ call.state.technical_signals[1].trend = "UP"
    /\ Strategy.risk_level = "LOW"

-----------------------------------------------------------------------------
(* A zero price through the pipeline and the follow-up *)

ZeroLevels == [low |-> 0, high |-> 0, target |-> 0, stop |-> 0]

\* a thesis row holding the four levels of a strategy synthesized at price 0
ZeroThesis(row) ==
    /\ row.entry_zone_min = Some(0) /\ row.entry_zone_max = Some(0)
    /\ row.target_price = Some(0) /\ row.stop_loss_price = Some(0)

\* the invocation in progress has stored its thesis as the last row
StoredByRun ==
    /\ Returned
    /\ run.write = "ok"
    /\ Len(theses) > run.n_before

-----------------------------------------------------------------------------
(* The indicator engine: calculate_technical_indicators and _compute_rsi *)
(* Prices are integers; a mean is the exact fraction [num, den], den > 0. *)

RsiPeriod == 14
Ma50Window == 50
Ma200Window == 200

Rat(n, d) == [num |-> n, den |-> d]
Gt(a, b) == a.num * b.den > b.num * a.den
Lt(a, b) == Gt(b, a)
Eq(a, b) == a.num * b.den = b.num * a.den

\* numpy's nan
NaN == [num |-> 0, den |-> 0]

RECURSIVE SumRange(_, _, _)
\* series[a] + ... + series[b]
SumRange(series, a, b) ==
    IF a > b THEN 0
    ELSE IF a = b THEN series[a]
    ELSE LET m == (a + b) \div 2
         IN  SumRange(series, a, m) + SumRange(series, m + 1, b)

\* A moving average that accepts a partial window (min_periods = 1).
RollingMean_Partial(series, window) ==
    LET n == Len(series)
        w == IF n < window THEN n ELSE window
    IN  Rat(SumRange(series, n - w + 1, n), w)

\* series.rolling(window).mean().iloc[-1]: nan until the window is full
RollingMean(series, window) ==
    LET n == Len(series)
    IN  IF n < window THEN NaN ELSE Rat(SumRange(series, n - window + 1, n), window)

\* series.diff(), rows 2..n
Delta(series, i) == series[i] - series[i - 1]
Gain(series, i) == IF Delta(series, i) > 0 THEN Delta(series, i) ELSE 0
Loss(series, i) == IF Delta(series, i) < 0 THEN 0 - Delta(series, i) ELSE 0

RECURSIVE SumGain(_, _, _)
SumGain(series, a, b) == IF a > b THEN 0 ELSE Gain(series, b) + SumGain(series, a, b - 1)

RECURSIVE SumLoss(_, _, _)
SumLoss(series, a, b) == IF a > b THEN 0 ELSE Loss(series, b) + SumLoss(series, a, b - 1)

\* _compute_rsi(series, period).iloc[-1] (lines 298-309).  The first delta is nan, so
\* the rolling means need period + 1 rows; an average loss of 0 is replaced by nan,
\* which makes rs and rsi nan; else rsi = 100 - 100/(1 + rs) = 100*gain/(gain + loss).
ComputeRsi(series, period) ==
    LET n == Len(series)
        avg_gain == Rat(SumGain(series, n - period + 1, n), period)
        avg_loss == Rat(SumLoss(series, n - period + 1, n), period)
    IN  IF n < period + 1 THEN NaN
        ELSE IF avg_loss.num = 0 THEN NaN
        ELSE Rat(100 * avg_gain.num, avg_gain.num + avg_loss.num)

\* x if not np.isnan(x) else default
IfNotNan(x, default) == IF x = NaN THEN Rat(default, 1) ELSE x

\* The trend rule with non-strict comparisons.
Trend_NonStrict(latest_ma50, latest_ma200, latest_close) ==
    IF ~Lt(latest_ma50, latest_ma200) /\ ~Lt(latest_close, latest_ma50) THEN "UP"
    ELSE IF ~Gt(latest_ma50, latest_ma200) /\ ~Gt(latest_close, latest_ma50) THEN "DOWN"
    ELSE "SIDEWAYS"

\* lines 226-232
Trend(latest_ma50, latest_ma200, latest_close) ==
    IF Gt(latest_ma50, latest_ma200) /\ Gt(latest_close, latest_ma50) THEN "UP"
    ELSE IF Lt(latest_ma50, latest_ma200) /\ Lt(latest_close, latest_ma50) THEN "DOWN"
    ELSE "SIDEWAYS"

\* lines 210-260 for a frame with a close column (the formatted strings ma_alignment,
\* support_zone and resistance_zone are left out)
TechnicalIndicators(close) ==
    LET ma50 == RollingMean(close, Ma50Window)
        ma200 == RollingMean(close, Ma200Window)
        rsi == ComputeRsi(close, RsiPeriod)
        latest_close == Rat(close[Len(close)], 1)
        latest_ma50 == IfNotNan(ma50, 0)
        latest_ma200 == IfNotNan(ma200, 0)
        latest_rsi == IfNotNan(rsi, 50)
    IN  [error |-> FALSE,
         trend |-> Trend(latest_ma50, latest_ma200, latest_close),
         rsi |-> latest_rsi, ma50 |-> latest_ma50, ma200 |-> latest_ma200,
         latest_close |-> latest_close]

IndicatorError == [error |-> TRUE]

MaxSeriesLen == 230     \* longest price series

SeriesLengths == {1, 2, 14, 15, 16, 49, 50, 51, 60, 199, 200, 201, MaxSeriesLen}

SeriesLevels == {0, 10, 400}

SeriesShapes == {"flat", "rise", "fall", "late_rise", "late_fall", "dip", "pop", "zigzag"}

\* row i of the close series of a shape: n rows around the level
Price(shape, level, n, i) ==
    CASE shape = "flat" -> level
      [] shape = "rise" -> level + i
      [] shape = "fall" -> level + n - i + 1
      [] shape = "late_rise" -> IF i <= n - RsiPeriod THEN level ELSE level + i - (n - RsiPeriod)
      [] shape = "late_fall" -> IF i <= n - RsiPeriod THEN level + RsiPeriod ELSE level + n - i
      [] shape = "dip" -> IF i < n THEN level + i ELSE 1
      [] shape = "pop" -> IF i < n THEN level + n - i + 1 ELSE level + 2 * n
      [] shape = "zigzag" -> level + 2 * (i % 2)

CloseSeries == {[i \in 1..n |-> Price(shape, level, n, i)] : shape \in SeriesShapes, level \in SeriesLevels, n \in SeriesLengths}

\* the frames handed to the engine: with a close column, or without one
IndicatorFrames ==
    {[error |-> FALSE, has_close |-> TRUE, latest_close |-> c[Len(c)], close |-> c] : c \in CloseSeries}
    \cup {[error |-> FALSE, has_close |-> FALSE, latest_close |-> 0, close |-> <<>>]}

\* researcher_node has the price frame and is about to compute the indicators
InitIndicator ==
    /\ theses = <<>>
    /\ snapshots = {}
    /\ clock = 2
    /\ today = 1
    /\ market = [x \in Tickers |-> PriceError]
    /\ watchlist_tbl = <<>>
    /\ job = IdleJob
    /\ sent = <<>>
    /\ flog = <<>>
    /\ InitPipelineIdle
    /\ \E df \in IndicatorFrames : call = [fn |-> "calculate_technical_indicators", df |-> df]
    /\ result = None

\* nodes.py 59: tech = calculate_technical_indicators(price_df)
TechnicalIndicatorsStep ==
    /\ call.fn = "calculate_technical_indicators"
    /\ result = None
    /\ result' = Some(IF CalculateTechnicalIndicators(call.df).error THEN IndicatorError
                      ELSE TechnicalIndicators(call.df.close))
    /\ UNCHANGED <<theses, clock, call>>
    /\ UNCHANGED followup_vars
    /\ UNCHANGED pipeline_vars

NextIndicator == TechnicalIndicatorsStep

SpecIndicator == InitIndicator /\ [][NextIndicator]_vars

\* the engine has returned its indicators for a frame with a close column
Computed == call.fn = "calculate_technical_indicators" /\ result # None /\ ~result[1].error

Rows == Len(call.df.close)

LatestClose == call.df.close[Rows]

\* the trailing window of RsiPeriod rows holds no price decrease
NoDecreaseInWindow ==
    \A i \in (Rows - RsiPeriod + 1)..Rows : call.df.close[i] >= call.df.close[i - 1]

\* C17: when a series of at least 15 rows has no price decrease in its trailing 14-row
\* window (average loss 0), the reported RSI is 100.
C17_NoLossRsiIs100 ==
    (Computed /\ Rows >= RsiPeriod + 1 /\ NoDecreaseInWindow) => Eq(result[1].rsi, Rat(100, 1))

\* the mean of the latest w closes, an unavailable one (fewer than w rows) counted as 0
MovingAverage(w) ==
    IF Rows < w THEN Rat(0, 1) ELSE Rat(SumRange(call.df.close, Rows - w + 1, Rows), w)

CloseAbove(ma) == Gt(Rat(LatestClose, 1), ma)
CloseBelow(ma) == Lt(Rat(LatestClose, 1), ma)

\* C18: for every series with a close column the trend is one of UP, DOWN, SIDEWAYS,
\* decided by the latest values with an unavailable moving average counted as 0: UP iff
\* MA50 > MA200 and close > MA50, DOWN iff MA50 < MA200 and close < MA50, else SIDEWAYS.
C18_TrendRule ==
    Computed =>
       LET ma50 == MovingAverage(Ma50Window)
           ma200 == MovingAverage(Ma200Window)
           up == Gt(ma50, ma200) /\ CloseAbove(ma50)
           down == Lt(ma50, ma200) /\ CloseBelow(ma50)
           trend == result[1].trend
       IN  /\ trend \in {"UP", "DOWN", "SIDEWAYS"}
           /\ trend = "UP" <=> up
           /\ trend = "DOWN" <=> down
           /\ trend = "SIDEWAYS" <=> (~up /\ ~down)

\* a series of at least 200 rows whose MA50 is below its MA200 and whose close is below
\* MA50 has been classified DOWN
C18_Witness ==
    /\ Computed
    /\ Rows >= Ma200Window
    /\ Lt(MovingAverage(Ma50Window), MovingAverage(Ma200Window))
    /\ CloseBelow(MovingAverage(Ma50Window))
    /\ result[1].trend = "DOWN"

PositivePrices == \A i \in 1..Rows : call.df.close[i] > 0

\* C19: for a series of positive prices shorter than 200 rows, the trend is SIDEWAYS with
\* fewer than 50 rows; with 50 to 199 rows it is UP when the latest close is above MA50
\* and SIDEWAYS otherwise; DOWN is never produced.
C19_ShortSeriesTrend ==
    (Computed /\ PositivePrices /\ Rows < Ma200Window) =>
       LET trend == result[1].trend
       IN  /\ trend # "DOWN"
           /\ Rows < Ma50Window => trend = "SIDEWAYS"
           /\ Rows >= Ma50Window =>
                 trend = IF CloseAbove(MovingAverage(Ma50Window)) THEN "UP" ELSE "SIDEWAYS"

\* a falling series of positive prices with 50 to 199 rows, its close below MA50, has
\* been classified SIDEWAYS
C19_Witness ==
    /\ Computed
    /\ PositivePrices
    /\ Rows >= Ma50Window
    /\ Rows < Ma200Window
    /\ CloseBelow(MovingAverage(Ma50Window))
    /\ result[1].trend = "SIDEWAYS"

-----------------------------------------------------------------------------
(* The Analyze parser on partially complete responses *)

\* a JSON object carrying every expected field
FullFa ==
    [revenue_growth |-> JNum(20), profit_growth |-> JNum(16), roe |-> JNum(18),
     pe_ratio |-> JNum(12), debt_to_equity |-> JNum(1), is_healthy |-> JBool(TRUE)]

FullTa ==
    [trend |-> JStr("UP"), rsi |-> JNum(30), ma_alignment |-> JStr("MA20 > MA50"),
     support_zone |-> JStr("90"), resistance_zone |-> JStr("120")]

\* technical signals outside the documented ranges: an unknown trend, an RSI above 100
OddTa ==
    [trend |-> JStr("MOON"), rsi |-> JNum(150), ma_alignment |-> JStr("MA20 > MA50"),
     support_zone |-> JStr("90"), resistance_zone |-> JStr("120")]

\* the object with only the fields of keys, one of them null when nulled names it
Restrict(full, keys, nulled) == [k \in keys |-> IF k = nulled THEN JNull ELSE full[k]]

\* Responses that decode to a JSON object: any subset of the expected fields present,
\* at most one present field null.
ParserBodies ==
    {[json |-> "object", fa |-> Restrict(FullFa, P, x), ta |-> Restrict(ta, Q, x)] :
        P \in SUBSET DOMAIN FullFa, Q \in SUBSET DOMAIN FullTa, x \in {"none", "roe", "trend"},
        ta \in {FullTa, OddTa}}

\* analyst_node has the oracle's response and is about to parse it (nodes.py 116)
InitParser ==
    /\ theses = <<>>
    /\ snapshots = {}
    /\ clock = 2
    /\ today = 1
    /\ market = [x \in Tickers |-> PriceError]
    /\ watchlist_tbl = <<>>
    /\ job = IdleJob
    /\ sent = <<>>
    /\ flog = <<>>
    /\ InitPipelineIdle
    /\ \E f \in {"json", "plain", "none"}, b \in ParserBodies :
          call = [fn |-> "analyst_node", resp |-> [raises |-> FALSE, fence |-> f, body |-> b]]
    /\ result = None

\* nodes.py 116-157: parse the response into the two records
ParseStep ==
    /\ call.fn = "analyst_node"
    /\ result = None
    /\ result' = Some(AnalystNode(InitialState("AAA"), call.resp))
    /\ UNCHANGED <<theses, clock, call>>
    /\ UNCHANGED followup_vars
    /\ UNCHANGED pipeline_vars

NextParser == ParseStep

SpecParser == InitParser /\ [][NextParser]_vars

Parsed == call.fn = "analyst_node" /\ result # None

\* every field the response carries holds a value of its declared type
WellTyped(body) ==
    /\ \A k \in DOMAIN body.fa : body.fa[k] # JNull
    /\ \A k \in DOMAIN body.ta : body.ta[k] # JNull

\* what the record must hold for a field: the response's value, or the declared default
Kept(d, key, default) == IF key \in DOMAIN d THEN d[key] ELSE default

C21_SignalsInRange ==
    (Parsed /\ result[1].technical_signals # None) =>
       /\ result[1].technical_signals[1].trend \in {"UP", "DOWN", "SIDEWAYS"}
       /\ result[1].technical_signals[1].rsi >= 0
       /\ result[1].technical_signals[1].rsi <= 100

-----------------------------------------------------------------------------
(* _split_message (telegram_service.py 99-116) *)
(* A text is a sequence of characters; positions in the code are 0-based. *)

MaxText == 6        \* longest message text
MaxLimit == 3       \* max_len ranges over 1..MaxLimit

NL == "\n"

Chars == {"a", "b", NL}

Texts == UNION {[1..n -> Chars] : n \in 0..MaxText}

\* text[i:j]
Slice(text, i, j) == SubSeq(text, i + 1, j)

\* str.find restricted to [start, end): the first position of ch, or -1
RFind_First(text, ch, start, end) ==
    LET hits == {i \in start..(end - 1) : i < Len(text) /\ text[i + 1] = ch}
    IN  IF hits = {} THEN -1 ELSE CHOOSE i \in hits : \A j \in hits : i <= j

\* text.rfind(ch, start, end): the last position of ch in [start, end), or -1
RFind(text, ch, start, end) ==
    LET hits == {i \in start..(end - 1) : i < Len(text) /\ text[i + 1] = ch}
    IN  IF hits = {} THEN -1 ELSE CHOOSE i \in hits : \A j \in hits : j <= i

\* text.lstrip(ch)
LStrip(text, ch) ==
    LET lead == {k \in 0..Len(text) : \A i \in 1..k : text[i] = ch}
        n == CHOOSE k \in lead : \A j \in lead : j <= k
    IN  Slice(text, n, Len(text))

\* The remainder taken one character past the cut.
Remainder_SkipsOne(text, split_idx) == LStrip(Slice(text, split_idx + 1, Len(text)), NL)

\* line 114: text[split_idx:].lstrip("\n")
Remainder(text, split_idx) == LStrip(Slice(text, split_idx, Len(text)), NL)

\* lines 109-112: where the remaining text is cut
SplitIndex(text, max_len) ==
    LET split_idx == RFind(text, NL, 0, max_len)
    IN  IF split_idx = -1 THEN max_len ELSE split_idx

\* send_message has the text and is about to split it
InitSplit ==
    /\ theses = <<>>
    /\ snapshots = {}
    /\ clock = 2
    /\ today = 1
    /\ market = [x \in Tickers |-> PriceError]
    /\ watchlist_tbl = <<>>
    /\ job = IdleJob
    /\ sent = <<>>
    /\ flog = <<>>
    /\ InitPipelineIdle
    /\ \E t \in Texts, m \in 1..MaxLimit :
          call = [fn |-> "_split_message", original |-> t, max_len |-> m, pc |-> "entry",
                  text |-> t, chunks |-> <<>>, cuts |-> <<>>]
    /\ result = None

\* lines 101-104: a text within the limit is returned whole, else the loop is entered
SplitEnter ==
    /\ call.fn = "_split_message"
    /\ call.pc = "entry"
    /\ IF Len(call.text) <= call.max_len
       THEN /\ result' = Some(<<call.text>>)
            /\ call' = [call EXCEPT !.pc = "done"]
       ELSE /\ result' = result
            /\ call' = [call EXCEPT !.pc = "loop"]
    /\ UNCHANGED <<theses, clock>>
    /\ UNCHANGED followup_vars
    /\ UNCHANGED pipeline_vars

\* lines 105-114: one iteration of the loop
SplitIterate ==
    /\ call.fn = "_split_message"
    /\ call.pc = "loop"
    /\ call.text # <<>>
    /\ IF Len(call.text) <= call.max_len
       THEN /\ call' = [call EXCEPT !.chunks = Append(@, call.text), !.pc = "done"]
            /\ result' = Some(call'.chunks)
       ELSE LET split_idx == SplitIndex(call.text, call.max_len)
            IN  /\ call' = [call EXCEPT
                               !.chunks = Append(@, Slice(call.text, 0, split_idx)),
                               !.text = Remainder(call.text, split_idx),
                               !.cuts = Append(@, [before |-> call.text, idx |-> split_idx])]
                /\ result' = result
    /\ UNCHANGED <<theses, clock>>
    /\ UNCHANGED followup_vars
    /\ UNCHANGED pipeline_vars

\* lines 105, 116: the remaining text is empty, the chunks are returned
SplitExit ==
    /\ call.fn = "_split_message"
    /\ call.pc = "loop"
    /\ call.text = <<>>
    /\ call' = [call EXCEPT !.pc = "done"]
    /\ result' = Some(call.chunks)
    /\ UNCHANGED <<theses, clock>>
    /\ UNCHANGED followup_vars
    /\ UNCHANGED pipeline_vars

NextSplit == SplitEnter \/ SplitIterate \/ SplitExit

SpecSplit == InitSplit /\ [][NextSplit]_vars

\* the loop is scheduled until the function returns
SpecSplitFair == SpecSplit /\ WF_vars(NextSplit)

Splitting == call.fn = "_split_message"

SplitReturned == Splitting /\ call.pc = "done"

\* positions of a newline among the first max_len characters of a text
NewlinesWithin(text, max_len) ==
    {i \in 0..(max_len - 1) : i < Len(text) /\ text[i + 1] = NL}

\* C22: every chunk has at most max_len characters; a remaining text longer than the
\* limit is cut at the last newline among its first max_len characters when there is
\* one, and at exactly max_len characters only when there is none.
C22_ChunksWithinLimit ==
    Splitting =>
       /\ \A i \in 1..Len(call.chunks) : Len(call.chunks[i]) <= call.max_len
       /\ SplitReturned => \A i \in 1..Len(result[1]) : Len(result[1][i]) <= call.max_len
       /\ \A k \in 1..Len(call.cuts) :
             LET c == call.cuts[k]
                 nls == NewlinesWithin(c.before, call.max_len)
             IN  /\ Len(c.before) > call.max_len
                 /\ call.chunks[k] = Slice(c.before, 0, c.idx)
                 /\ nls # {} => (c.idx \in nls /\ \A j \in nls : j <= c.idx)
                 /\ nls = {} => c.idx = call.max_len

\* a text cut at the later of two newlines within the limit
C22_Witness ==
    /\ SplitReturned
    /\ call.max_len = 3
    /\ Len(call.cuts) >= 1
    /\ NewlinesWithin(call.cuts[1].before, 3) = {1, 2}
    /\ call.cuts[1].idx = 2

-----------------------------------------------------------------------------
(* Repeated follow-up runs: worker.py 198-214 *)

MaxRerunLog == 2    \* the job is started again while fewer entries and messages exist
MaxDay == 2         \* last calendar date

RerunQuotes == {Quote(90, 1000, -2), Quote(96, 2000, 3)}

\* a watchlist of one or two entries, duplicates included; AAA has a stored thesis
InitReruns ==
    /\ theses = <<ExampleThesis("AAA", 1)>>
    /\ snapshots = {}
    /\ clock = 2
    /\ today = 1
    /\ market \in [Tickers -> RerunQuotes]
    /\ watchlist_tbl \in {w \in Watchlists : Len(w) \in 1..2}
    /\ job = IdleJob
    /\ sent = <<>>
    /\ flog = <<>>
    /\ InitPipelineIdle
    /\ InitNoCall

\* lines 199-212: daily_followup_job is invoked again (--once, or the next cron firing);
\* quotes may have moved, the date is the same or the next one
RerunJob ==
    /\ job.pc \in {"done", "crashed"}
    /\ Len(flog) < MaxRerunLog
    /\ Len(sent) < MaxRerunLog
    /\ job' = IdleJob
    /\ market' \in [Tickers -> RerunQuotes]
    /\ today' \in {d \in {today, today + 1} : d <= MaxDay}
    /\ UNCHANGED <<theses, snapshots, clock, watchlist_tbl, sent, flog>>
    /\ UNCHANGED pipeline_vars
    /\ UNCHANGED helper_vars

NextReruns == StartJob \/ ProcessItem \/ FinishJob \/ RerunJob

SpecReruns == InitReruns /\ [][NextReruns]_vars

\* the processed entries whose snapshot write succeeded for the key (symbol, date)
WritesOf(symbol, date) ==
    {i \in Processed : /\ flog[i].write = "ok"
                       /\ flog[i].snapshot_arg # None
                       /\ flog[i].snapshot_arg[1].symbol = symbol
                       /\ flog[i].snapshot_arg[1].date = date}

LastWriteOf(symbol, date) ==
    CHOOSE i \in WritesOf(symbol, date) : \A j \in WritesOf(symbol, date) : j <= i

\* C23: the store holds at most one snapshot per (ticker, date); a key written more than
\* once holds the close price, volume, change percent, commentary and signal of the most
\* recent successful write, and nothing is stored for a key never written.
C23_OneSnapshotPerDay ==
    /\ \A r1 \in snapshots, r2 \in snapshots :
          (r1.symbol = r2.symbol /\ r1.date = r2.date) => r1 = r2
    /\ \A r \in snapshots : WritesOf(r.symbol, r.date) # {}
    /\ \A symbol \in Tickers, date \in 1..MaxDay + 1 :
          WritesOf(symbol, date) # {} =>
             LET e == flog[LastWriteOf(symbol, date)]
                 v == Decide(e.thesis, e.price_info.close)
                 row == CHOOSE r \in snapshots : r.symbol = symbol /\ r.date = date
             IN  /\ \E r \in snapshots : r.symbol = symbol /\ r.date = date
                 /\ row.close_price = e.price_info.close
                 /\ row.volume = e.price_info.volume
                 /\ row.change_percent = e.price_info.change_percent
                 /\ row.action_signal = v.signal
                 /\ row.ai_commentary \in {v.note, "comment"}
                 /\ e.ai = "text" => row.ai_commentary = "comment"
                 /\ e.ai # "text" => row.ai_commentary = v.note

\* a key written twice on the same date at different prices: only the later row is stored
C23_Witness ==
    \E i \in Processed, j \in Processed :
       /\ i < j
       /\ flog[i].write = "ok" /\ flog[j].write = "ok"
       /\ flog[i].snapshot_arg # None /\ flog[j].snapshot_arg # None
       /\ flog[i].snapshot_arg[1].symbol = flog[j].snapshot_arg[1].symbol
       /\ flog[i].snapshot_arg[1].date = flog[j].snapshot_arg[1].date
       /\ flog[i].snapshot_arg[1].close_price # flog[j].snapshot_arg[1].close_price
       /\ flog[j].snapshot_arg[1] \in snapshots
       /\ flog[i].snapshot_arg[1] \notin snapshots

-----------------------------------------------------------------------------
(* Ownership of the state fields, the stored thesis *)

\* the fields each node returns (nodes.py 79-85, 147-157, 233-243)
Owned(node) ==
    CASE node = "researcher" ->
            {"current_price", "raw_financials", "raw_ohlc", "raw_news", "previous_thesis"}
      [] node = "analyst" -> {"financial_analysis", "technical_signals"}
      [] node = "strategist" -> {"current_strategy", "final_message"}
      [] OTHER -> {}

\* C25: a stage step changes only the state fields the stage owns: Research its five
\* inputs, Analyze the two structured records, Strategize the strategy and the final
\* message; the ticker and every other field are as before the step.
C25_StagesWriteOwnFields ==
    [][(run.pc \in {"researcher", "analyst", "strategist"}) =>
          /\ run'.state.ticker = run.state.ticker
          /\ \A k \in DOMAIN run.state \ Owned(run.pc) : run'.state[k] = run.state[k]]_vars

\* a returned invocation in which every stage has written its fields
C25_Witness ==
    /\ Returned
    /\ run.state.ticker = "AAA"
    /\ run.state.current_price = 100
    /\ run.state.previous_thesis # None
    /\ run.state.financial_analysis # None
    /\ run.state.technical_signals # None
    /\ run.state.current_strategy # None
    /\ run.state.final_message = "r2"

\* states of other invocations that share nothing with this one but the current price
SamePriceStates(price) ==
    {Merge([InitialState(t) EXCEPT !.current_price = price], AnalystNode(InitialState(t), resp)) :
        t \in RawTickers, resp \in {r \in AnalystResponses : r.fence = "none"}}

Analyzed == Active /\ Len(run.trace) >= 2

\* C27: once Analyze has run, financial_analysis is null exactly when technical_signals
\* is null, for every oracle outcome.
C27_BothOrNeither ==
    /\ Analyzed =>
          (run.state.financial_analysis = None <=> run.state.technical_signals = None)
    /\ (Active /\ ~Analyzed) =>
          (run.state.financial_analysis = None /\ run.state.technical_signals = None)

\* a response whose technical part alone is valid leaves both records null
C27_Witness ==
    /\ Analyzed
    /\ ~run.analyst_resp.raises
    /\ run.analyst_resp.body.json = "object"
    /\ run.analyst_resp.body.fa = [roe |-> JNull]
    /\ run.analyst_resp.body.ta = [trend |-> JStr("UP")]
    /\ run.state.financial_analysis = None
    /\ run.state.technical_signals = None

ErrorMessages == {ErrorMessage(Upper(t)) : t \in RawTickers}

Strategized == Active /\ Len(run.trace) >= 3

\* C28: a run whose Strategize oracle call failed returns a null strategy and the error
\* text and attempts no thesis write; a run adds a thesis only after a successful call and
\* with the report as content, so no stored thesis and no previous_thesis read by a run
\* is an error message.
C28_OnlyReportsStored ==
    /\ (Strategized /\ run.strat_resp.raises) =>
          /\ run.state.current_strategy = None
          /\ run.state.final_message = ErrorMessage(run.state.ticker)
          /\ run.write = "skipped"
          /\ Len(theses) = run.n_before
    /\ (Active /\ Len(theses) > run.n_before) =>
          /\ Strategized
          /\ ~run.strat_resp.raises
          /\ run.write = "ok"
          /\ Len(theses) = run.n_before + 1
          /\ theses[Len(theses)].thesis_content = Strip(run.strat_resp.text)
    /\ \A i \in 1..Len(theses) : theses[i].thesis_content \notin ErrorMessages
    /\ (Researched /\ run.state.previous_thesis # None) =>
          run.state.previous_thesis[1] \notin ErrorMessages

\* after a run whose oracle call failed, the next run for the ticker reads the older thesis
C28_Witness ==
    /\ last_run # None
    /\ ~last_run[1].strat_ok
    /\ last_run[1].final_message = "error AAA"
    /\ last_run[1].n_after = last_run[1].n_before
    /\ Researched
    /\ run.state.ticker = "AAA"
    /\ run.state.previous_thesis = Some("ext")

-----------------------------------------------------------------------------
(* What the chunks keep of the text *)

RECURSIVE Flatten(_)
\* "".join(chunks)
Flatten(chunks) == IF chunks = <<>> THEN <<>> ELSE Head(chunks) \o Flatten(Tail(chunks))

IsNotNewline(c) == c # NL

WithoutNewlines(text) == SelectSeq(text, IsNotNewline)

RECURSIVE Rebuilds(_, _)
\* text is the chunks in order, each followed by a run of zero or more newlines
Rebuilds(text, chunks) ==
    IF chunks = <<>> THEN \A i \in 1..Len(text) : text[i] = NL
    ELSE LET c == Head(chunks)
         IN  /\ Len(text) >= Len(c)
             /\ SubSeq(text, 1, Len(c)) = c
             /\ \E g \in 0..(Len(text) - Len(c)) :
                   /\ \A i \in 1..g : text[Len(c) + i] = NL
                   /\ Rebuilds(SubSeq(text, Len(c) + g + 1, Len(text)), Tail(chunks))

\* C29: for every text and every limit max_len >= 1 the function returns, and the chunks
\* in order are the text with runs of newlines taken out after chunks only: the
\* characters other than newlines are all kept, once each and in their order.
C29_ChunksRebuildText ==
    /\ [](SplitReturned =>
            /\ WithoutNewlines(Flatten(result[1])) = WithoutNewlines(call.original)
            /\ Rebuilds(call.original, result[1]))
    /\ (Splitting ~> SplitReturned)

\* three chunks, a newline kept inside one of them and one removed between two
C29_Witness ==
    /\ SplitReturned
    /\ Len(result[1]) >= 3
    /\ \E i \in 1..Len(result[1]) : \E k \in 1..Len(result[1][i]) : result[1][i][k] = NL
    /\ Len(Flatten(result[1])) < Len(call.original)
    /\ Len(WithoutNewlines(call.original)) >= 3

\* C30: for a non-empty text no returned chunk is empty.
C30_NoEmptyChunk ==
    (SplitReturned /\ call.original # <<>>) =>
       \A i \in 1..Len(result[1]) : result[1][i] # <<>>

-----------------------------------------------------------------------------
(* Two invocations of run_analysis at once: graph.py 45-70 in two workers *)
(* Each invocation has its own AgentState; the thesis table and the clock are shared. *)

\* collaborator answers of the concurrent invocations
ConcResearch ==
    {[fin |-> "ratios", price_df |-> [error |-> FALSE, has_close |-> TRUE, latest_close |-> p]] :
        p \in PipelinePrices}
    \cup {[fin |-> "error", price_df |-> [error |-> TRUE, has_close |-> FALSE, latest_close |-> 0]]}

ConcAnalystResponses ==
    {r \in AnalystResponses : r.fence = "none" /\ (r.raises \/ "is_healthy" \in DOMAIN r.body.fa)}

ConcStrategistResponses == {r \in StrategistResponses : r.text # " r1 "}

\* graph.py 45-68, first worker: one invocation, for a ticker the other worker is not on
ConcRunAnalysis ==
    /\ run.pc = "idle"
    /\ RunAnalysis
    /\ peer.pc # "idle" => run'.state.ticker # peer.state.ticker

ConcResearcherStep == ResearcherStep /\ run'.research \in ConcResearch

ConcAnalystStep == AnalystStep /\ run'.analyst_resp \in ConcAnalystResponses

ConcStrategistStep == StrategistStep /\ run'.strat_resp \in ConcStrategistResponses

\* graph.py 45-68, second worker
PeerRunAnalysis ==
    /\ peer.pc = "idle"
    /\ \E ticker \in RawTickers, n \in NextNodes("START") :
          /\ run.pc # "idle" => Upper(ticker) # run.state.ticker
          /\ peer' = [pc |-> n, state |-> InitialState(ticker), trace |-> <<>>, calls |-> <<>>,
                      n_before |-> Len(theses), read |-> "none", research |-> NoResearch,
                      analyst_resp |-> NoAnalystResponse,
                      strat_resp |-> NoStrategistResponse, write |-> "none"]
    /\ UNCHANGED <<theses, clock, run, last_run, nruns>>
    /\ UNCHANGED followup_vars
    /\ UNCHANGED helper_vars

PeerResearcherStep ==
    /\ peer.pc = "researcher"
    /\ \E res \in ConcResearch, read_ok \in BOOLEAN, n \in NextNodes("researcher") :
          peer' = [peer EXCEPT
                      !.state = Merge(@, ResearcherNode(@, theses, res.fin, res.price_df, read_ok)),
                      !.trace = Append(@, "researcher"),
                      !.read = IF read_ok THEN "ok" ELSE "raise",
                      !.research = res,
                      !.pc = n]
    /\ UNCHANGED <<theses, clock, run, last_run, nruns>>
    /\ UNCHANGED followup_vars
    /\ UNCHANGED helper_vars

PeerAnalystStep ==
    /\ peer.pc = "analyst"
    /\ \E resp \in ConcAnalystResponses, n \in NextNodes("analyst") :
          peer' = [peer EXCEPT !.state = Merge(@, AnalystNode(@, resp)),
                               !.trace = Append(@, "analyst"),
                               !.calls = Append(@, "analyst"),
                               !.analyst_resp = resp,
                               !.pc = n]
    /\ UNCHANGED <<theses, clock, run, last_run, nruns>>
    /\ UNCHANGED followup_vars
    /\ UNCHANGED helper_vars

PeerStrategistStep ==
    /\ peer.pc = "strategist"
    /\ \E resp \in ConcStrategistResponses, write_ok \in BOOLEAN, n \in NextNodes("strategist") :
          LET r == StrategistNode(peer.state, theses, resp, clock, write_ok)
          IN  /\ peer' = [peer EXCEPT !.state = Merge(@, r.update),
                                      !.trace = Append(@, "strategist"),
                                      !.calls = Append(@, "strategist"),
                                      !.strat_resp = resp,
                                      !.write = IF resp.raises THEN "skipped"
                                                ELSE IF write_ok THEN "ok" ELSE "raise",
                                      !.pc = n]
              /\ theses' = r.store
    /\ clock' = clock + 1
    /\ UNCHANGED <<run, last_run, nruns>>
    /\ UNCHANGED followup_vars
    /\ UNCHANGED helper_vars

NextConcurrent ==
    \/ ConcRunAnalysis \/ ConcResearcherStep \/ ConcAnalystStep \/ ConcStrategistStep
    \/ PeerRunAnalysis \/ PeerResearcherStep \/ PeerAnalystStep \/ PeerStrategistStep

SpecConcurrent == InitPipeline /\ [][NextConcurrent]_vars

\* the invocation has stored its thesis
Wrote(r) == r.pc = "END" /\ ~r.strat_resp.raises /\ r.write = "ok"

\* the rows of the invocation's own ticker, without the one it stored itself
OwnRowsBefore(r) ==
    LET own == SelectSeq(theses, LAMBDA row : row.symbol = r.state.ticker)
    IN  IF Wrote(r) THEN SubSeq(own, 1, Len(own) - 1) ELSE own

\* the state of the invocation had it run alone on its ticker with the same answers
SoloState(r) ==
    LET s0 == InitialState(r.state.ticker)
        s1 == Merge(s0, ResearcherNode(s0, OwnRowsBefore(r), r.research.fin,
                                       r.research.price_df, r.read = "ok"))
        s2 == Merge(s1, AnalystNode(s1, r.analyst_resp))
        s3 == Merge(s2, StrategistNode(s2, <<>>, r.strat_resp, 0, r.write = "ok").update)
    IN  CASE Len(r.trace) = 0 -> s0
          [] Len(r.trace) = 1 -> s1
          [] Len(r.trace) = 2 -> s2
          [] OTHER -> s3

Isolated(r) ==
    r.pc # "idle" =>
       /\ r.state = SoloState(r)
       /\ Wrote(r) =>
             LET own == SelectSeq(theses, LAMBDA row : row.symbol = r.state.ticker)
                 row == own[Len(own)]
             IN  /\ Len(own) >= 1
                 /\ row.thesis_content = Strip(r.strat_resp.text)
                 /\ row.thesis_content = r.state.final_message
                 /\ LevelsOfRow(row) = LevelsOf(r.state.current_strategy[1])
                 /\ LevelsOfRow(row).target = RoundHalfEven(r.state.current_price * 120, 100)

\* C24: two invocations for different tickers, their stage steps interleaved in any
\* order: each starts from the initial state of its ticker, is at every point in the state
\* it would have reached alone with the same collaborator answers, and the thesis it
\* stored has its own ticker, report and price levels.
C24_RunsDoNotInterfere ==
    /\ Isolated(run)
    /\ Isolated(peer)
    /\ (run.pc # "idle" /\ peer.pc # "idle") => run.state.ticker # peer.state.ticker
    /\ \A i \in 1..Len(theses) :
          theses[i].last_updated >= 2 =>
             \/ Wrote(run) /\ theses[i].symbol = run.state.ticker
             \/ Wrote(peer) /\ theses[i].symbol = peer.state.ticker

\* both invocations started before either stored, at different prices and with different
\* reports, and both stored their thesis
C24_Witness ==
    /\ Wrote(run) /\ Wrote(peer)
    /\ run.n_before = peer.n_before
    /\ run.state.ticker = "AAA" /\ peer.state.ticker = "BBB"
    /\ run.state.final_message = "r1" /\ peer.state.final_message = "r2"
    /\ run.state.current_price = 100 /\ peer.state.current_price = 25
    /\ run.state.previous_thesis = Some("ext")
    /\ theses[Len(theses)].symbol = "AAA"
    /\ theses[Len(theses) - 1].symbol = "BBB"
====
